---- MODULE Spec2Model ----
(***************************************************************************)
(* The USSD conversational session engine of CIVCON                        *)
(* (app/routers/ussd.py) with its collaborators: the Redis session store,  *)
(* the users / messages tables, the SMS gateway and the phone normalizer.  *)
(*                                                                         *)
(* Strings are sequences of one-character strings, so that strip, split,   *)
(* replace, lower and title are computed as Python computes them.          *)
(* A request handler is a coroutine: one action per stretch of code        *)
(* between two awaits that touch shared state.                             *)
(***************************************************************************)
EXTENDS Integers, Sequences, FiniteSets, TLC

(***************************************************************************)
(* Bounds of the model                                                     *)
(***************************************************************************)
\* requests are accepted while fewer than MaxMessages messages are stored
MaxMessages == 2
\* the per-session count of question submissions saturates here
MaxAttempts == 2
\* overlapping redeliveries in one run
MaxRedeliveries == 1
\* clock ticks in the lifetime a save gives to a session key (expire=900 s)
TtlTicks == 2

(***************************************************************************)
(* String helpers (Python str semantics on sequences of characters)        *)
(***************************************************************************)
LowerLetters ==
    <<"a","b","c","d","e","f","g","h","i","j","k","l","m",
      "n","o","p","q","r","s","t","u","v","w","x","y","z">>

UpperLetters ==
    <<"A","B","C","D","E","F","G","H","I","J","K","L","M",
      "N","O","P","Q","R","S","T","U","V","W","X","Y","Z">>

Digits == <<"0","1","2","3","4","5","6","7","8","9">>

Range(s) == {s[i] : i \in 1..Len(s)}

LowerSet == Range(LowerLetters)

UpperSet == Range(UpperLetters)

DigitSet == Range(Digits)

IndexIn(c, s) == IF \E i \in 1..Len(s) : s[i] = c THEN CHOOSE i \in 1..Len(s) : s[i] = c ELSE 0

IsLetter(c) == c \in LowerSet \/ c \in UpperSet

IsSpace(c) == c = " "

LowerChar(c) == IF c \in UpperSet THEN LowerLetters[IndexIn(c, UpperLetters)] ELSE c

UpperChar(c) == IF c \in LowerSet THEN UpperLetters[IndexIn(c, LowerLetters)] ELSE c

\* str.lower()
Lower(s) == [i \in 1..Len(s) |-> LowerChar(s[i])]

\* str.title(): a letter is upper-cased after a non-letter, lower-cased after a letter
Title(s) ==
    [i \in 1..Len(s) |->
        IF i = 1 \/ ~IsLetter(s[i-1]) THEN UpperChar(s[i]) ELSE LowerChar(s[i])]

\* str.startswith(p)
StartsWith(s, p) == Len(s) >= Len(p) /\ SubSeq(s, 1, Len(p)) = p

\* s[n:]  (n is a 0-based Python index)
From(s, n) == SubSeq(s, n + 1, Len(s))

\* s[:n]
Upto(s, n) == SubSeq(s, 1, IF n < Len(s) THEN n ELSE Len(s))

RECURSIVE LStrip(_)
LStrip(s) == IF s # << >> /\ IsSpace(Head(s)) THEN LStrip(Tail(s)) ELSE s

RECURSIVE RStrip(_)
RStrip(s) == IF s # << >> /\ IsSpace(s[Len(s)]) THEN RStrip(SubSeq(s, 1, Len(s) - 1)) ELSE s

\* str.strip()
Strip(s) == RStrip(LStrip(s))

\* str.replace(old, new): leftmost non-overlapping occurrences
RECURSIVE Replace(_, _, _)
Replace(s, old, new) ==
    IF s = << >> THEN << >>
    ELSE IF StartsWith(s, old) THEN new \o Replace(From(s, Len(old)), old, new)
    ELSE <<Head(s)>> \o Replace(Tail(s), old, new)

\* sub in s
Contains(s, sub) == \E i \in 0..(Len(s) - Len(sub)) : SubSeq(s, i + 1, i + Len(sub)) = sub

\* s.split("*") for a non-empty s: the list of segments
RECURSIVE Split(_, _)
Split(s, sep) ==
    IF \A k \in 1..Len(s) : s[k] # sep THEN <<s>>
    ELSE LET i == CHOOSE k \in 1..Len(s) : s[k] = sep /\ \A j \in 1..(k-1) : s[j] # sep
         IN  <<SubSeq(s, 1, i - 1)>> \o Split(SubSeq(s, i + 1, Len(s)), sep)

\* re.sub(r'[<>]', '', s)
RemoveAngle(s) == SelectSeq(s, LAMBDA c : c \notin {"<", ">"})

\* str.isdigit() on ASCII text
IsDigitStr(s) == s # << >> /\ \A i \in 1..Len(s) : s[i] \in DigitSet

\* int(s) of an ASCII digit string
RECURSIVE IntOf(_)
IntOf(s) == IF s = << >> THEN 0 ELSE 10 * IntOf(SubSeq(s, 1, Len(s) - 1)) + (IndexIn(s[Len(s)], Digits) - 1)

(***************************************************************************)
(* Static tables of ussd.py and configuration                              *)
(***************************************************************************)
\* Python None where a string is expected
None == <<"<None>">>

Falsy(s) == s = None \/ s = << >>

LanguageKeys == {<<"1">>, <<"2">>, <<"3">>, <<"4">>, <<"5">>, <<"6">>}

\* a table with the first two languages exchanged
LanguagesSwapped ==
    [k \in LanguageKeys |->
        CASE k = <<"1">> -> "LG" [] k = <<"2">> -> "EN" [] k = <<"3">> -> "RN"
          [] k = <<"4">> -> "LU" [] k = <<"5">> -> "SW" [] k = <<"6">> -> "RT"]

LANGUAGES ==
    [k \in LanguageKeys |->
        CASE k = <<"1">> -> "EN" [] k = <<"2">> -> "LG" [] k = <<"3">> -> "RN"
          [] k = <<"4">> -> "LU" [] k = <<"5">> -> "SW" [] k = <<"6">> -> "RT"]

LanguageCodes == {LANGUAGES[k] : k \in LanguageKeys}

TOPICS ==
    [l \in LanguageCodes |->
        CASE l = "EN" -> <<"Health", "Education", "Roads", "Water", "Electricity">>
          [] l = "LG" -> <<"Obulamu", "Eby'enjigiriza", "Enzira", "Amazzi", "Masanyalaze">>
          [] l = "RN" -> <<"Oburamu", "Eby'enjigiriza", "Enzira", "Amaizi", "Amashanyarazi">>
          [] l = "LU" -> <<"Rwom", "Kweko", "Yo ka", "Pi", "Teko">>
          [] l = "SW" -> <<"Afya", "Elimu", "Barabara", "Maji", "Umeme">>
          [] l = "RT" -> <<"Oburamu", "Eby'enjigiriza", "Enzira", "Amaizi", "Amashanyarazi">>]

\* the keys of the PROMPTS table
PromptKeys == {"register_name", "register_district", "ask_topic", "question", "returning_language_option"}

\* PROMPTS.get(step, WELCOME_MSG).get(language, ''): a response is a sequence
\* of text parts, a table entry being named by its table, key and language
PromptOrWelcome(step, language) ==
    IF step \in PromptKeys THEN <<"PROMPTS", step, language>> ELSE <<"WELCOME_MSG", language>>

SelectLanguageMenu == <<"Please select language:", "1. English .. 6. Rutooro">>

FALLBACK_PHONE == <<"+","2","5","6","7","8","4","4","3","7","6","5","2">>

FALLBACK_MP_ID == 15

\* the Message class with an is_flagged column added
MessageAttrsWithFlag ==
    {"id", "sender_id", "recipient_id", "content", "district_id", "created_at",
     "response", "responded_at", "mp_id", "mp", "sender", "recipient", "is_flagged"}

\* attributes of the mapped class Message: the keyword arguments its
\* constructor accepts
MessageAttrs ==
    {"id", "sender_id", "recipient_id", "content", "district_id", "created_at",
     "response", "responded_at", "mp_id", "mp", "sender", "recipient"}

\* keyword arguments of the two Message(...) calls of ussd_callback
MessageKwargs ==
    {"sender_id", "recipient_id", "content", "district_id", "created_at", "mp_id", "is_flagged"}

\* declarative constructor: TypeError on a keyword that is not an attribute
MessageCtorRaises(kwargs) == ~(kwargs \subseteq MessageAttrs)

\* sanitize_input truncates to this many characters
MaxQuestionLen == 160

(***************************************************************************)
(* Pure functions                                                          *)
(***************************************************************************)
\* a normalizer that strips a leading 0 and prefixes whatever is left
normalize_always_prefix(phone_number) ==
    IF Falsy(phone_number) THEN << >>
    ELSE LET p == Replace(Strip(phone_number), <<" ">>, << >>)
         IN  <<"+","2","5","6">> \o (IF StartsWith(p, <<"0">>) THEN From(p, 1) ELSE p)

\* phone_utils.normalize_phone_number
normalize_phone_number(phone_number) ==
    IF Falsy(phone_number) THEN << >>
    ELSE LET p == Replace(Strip(phone_number), <<" ">>, << >>)
         IN  IF StartsWith(p, <<"0">>) THEN <<"+","2","5","6">> \o From(p, 1)
             ELSE IF StartsWith(p, <<"2","5","6">>) THEN <<"+">> \o p
             ELSE IF ~StartsWith(p, <<"+","2","5","6">>) THEN <<"+","2","5","6">> \o p
             ELSE p

\* validate_name without the character check
validate_name_any(name) == Strip(name) # << >>

\* re.match(r'^[A-Za-z\s]+$', name.strip()) and name.strip() non-empty
validate_name(name) ==
    LET n == Strip(name)
    IN  n # << >> /\ \A i \in 1..Len(n) : IsLetter(n[i]) \/ IsSpace(n[i])

\* d.lower().replace("district", "").strip()
NormDistrict(d) == Strip(Replace(Lower(d), <<"d","i","s","t","r","i","c","t">>, << >>))


\* a sanitizer that does not truncate
sanitize_without_cut(text) == RemoveAngle(Strip(text))

\* re.sub(r'[<>]', '', text.strip())[:160]
sanitize_input(text) == Upto(RemoveAngle(Strip(text)), MaxQuestionLen)

\* str.split(): split on runs of whitespace, no empty words
RECURSIVE Words(_)
Words(s) ==
    LET t == LStrip(s)
    IN  IF t = << >> THEN << >>
        ELSE IF \A k \in 1..Len(t) : t[k] # " " THEN <<t>>
        ELSE LET i == CHOOSE k \in 1..Len(t) : t[k] = " " /\ \A j \in 1..(k-1) : t[j] # " "
             IN  <<SubSeq(t, 1, i - 1)>> \o Words(SubSeq(t, i, Len(t)))

\* text.split("*") if text else []
user_response_of(text) == IF text = << >> THEN << >> ELSE Split(text, "*")

\* user_response[-1] if user_response else None
current_input_of(user_response) ==
    IF user_response = << >> THEN None ELSE user_response[Len(user_response)]

\* (s or "")
OrEmpty(s) == IF Falsy(s) THEN << >> ELSE s

\* a resolution that only accepts a representative's district containing
\* the citizen's
RECURSIVE FirstMatchOneWay(_, _)
FirstMatchOneWay(mps, user_district) ==
    IF mps = << >> THEN 0
    ELSE LET d == NormDistrict(OrEmpty(Head(mps).district_id))
         IN  IF Contains(d, user_district) THEN 1
             ELSE LET r == FirstMatchOneWay(Tail(mps), user_district)
                  IN  IF r = 0 THEN 0 ELSE r + 1

\* next(m for m in mps if either normalized district contains the other), None
RECURSIVE FirstMatch(_, _)
FirstMatch(mps, user_district) ==
    IF mps = << >> THEN 0
    ELSE LET d == NormDistrict(OrEmpty(Head(mps).district_id))
         IN  IF Contains(d, user_district) \/ Contains(user_district, d) THEN 1
             ELSE LET r == FirstMatch(Tail(mps), user_district)
                  IN  IF r = 0 THEN 0 ELSE r + 1

\* a resolver that prefers a representative of exactly the citizen's district
resolve_mp_exact_first(mps, district_id) ==
    LET user_district == NormDistrict(OrEmpty(district_id))
        exact == {i \in 1..Len(mps) : NormDistrict(OrEmpty(mps[i].district_id)) = user_district}
        mp == IF exact # {} THEN CHOOSE i \in exact : \A j \in exact : i <= j
              ELSE FirstMatch(mps, user_district)
    IN  [recipient_id |-> IF mp # 0 THEN mps[mp].user_id ELSE FALLBACK_MP_ID,
         recipient_phone |-> IF mp # 0 THEN mps[mp].phone_number ELSE FALLBACK_PHONE]

\* lines 392-402: the representative a question goes to
resolve_mp(mps, district_id) ==
    LET user_district == NormDistrict(OrEmpty(district_id))
        mp == FirstMatch(mps, user_district)
    IN  [recipient_id |-> IF mp # 0 THEN mps[mp].user_id ELSE FALLBACK_MP_ID,
         recipient_phone |-> IF mp # 0 THEN mps[mp].phone_number ELSE FALLBACK_PHONE]

(***************************************************************************)
(* The modelled world                                                      *)
(***************************************************************************)
\* gateway session ids, and the request slots of the server (two requests
\* may overlap)
SessionIds == {"s1"}

Workers == {1, 2}

\* the raw phoneNumber the gateway may send for the subscriber
RawPhones == {<<"0","7">>, <<"2","5","6","7">>, <<"+","2","5","6","7">>, <<"7">>}

Zero == <<"0">>

One == <<"1">>

Two == <<"2">>

Kampala == <<"K","a","m","p","a","l","a">>

\* the accumulated text of a callback
Texts ==
    { << >>, Zero, One, Two, <<"9">>,
      <<"1","*","1">>, <<"1","*">>, <<"1","*","0">>,
      Kampala, <<"1","*","P","s","<"," ">> }

\* rows of the mps table (read-only here)
MPS ==
    << [id |-> 1, user_id |-> 7, district_id |-> <<"G","u","l","u"," ","D","i","s","t","r","i","c","t">>,
        phone_number |-> <<"0","7","8">>],
       [id |-> 2, user_id |-> 8, district_id |-> Kampala, phone_number |-> <<"0","7","9">>] >>

\* select(MP.district_id).distinct(), each lower-cased, "district" removed, stripped
\* line 110: d.lower() on a NULL district_id raises AttributeError
validate_district_raises(mps) == \E i \in 1..Len(mps) : mps[i].district_id = None

\* line 110: the normalized districts of the representatives
valid_districts_of(mps) == {NormDistrict(mps[i].district_id) : i \in 1..Len(mps)}

\* a validation that accepts every district
validate_district_any(mps, district) == TRUE

\* lines 108-111 over the rows of the mps table
validate_district_in(mps, district) == NormDistrict(district) \in valid_districts_of(mps)

valid_districts == valid_districts_of(MPS)

validate_district(district) == validate_district_in(MPS, district)

NoUser ==
    [id |-> 0, phone_number |-> None, first_name |-> None, last_name |-> None,
     district_id |-> None, preferred_language |-> ""]

\* the citizen a deployment may already hold for the subscriber
ExistingUser ==
    [id |-> 1, phone_number |-> <<"+","2","5","6","7">>, first_name |-> Kampala,
     last_name |-> << >>, district_id |-> Kampala, preferred_language |-> "LG"]

EmptyData == [name |-> None, district |-> None, topic |-> ""]

\* no value stored under the session id
NoSession == [step |-> "<none>", language |-> "", data |-> EmptyData, user_id |-> 0]

\* stored values that are not a session: text that json.loads rejects, a
\* JSON object without the key "step", and a JSON number
NotJson == [NoSession EXCEPT !.step = "<not json>"]

JsonObjectWithoutStep == [NoSession EXCEPT !.step = "<object without step>"]

JsonNumber == [NoSession EXCEPT !.step = "<number>"]

Garbage == {NotJson, JsonObjectWithoutStep, JsonNumber}

NoMsg ==
    [sender_id |-> 0, recipient_id |-> 0, content |-> None, district_id |-> None,
     mp_id |-> 0, is_flagged |-> FALSE, sid |-> ""]

\* outcomes the collaborators give to one request: the moderation result
\* (error: the detector raises), whether the database accepts its commit
\* (the unique phone index apart, which the users table decides), whether
\* the SMS gateway accepts its message
Envs == [mod : {"clean", "spam", "offensive", "error"}, db : BOOLEAN, sms : BOOLEAN]

CalmEnv == [mod |-> "clean", db |-> TRUE, sms |-> TRUE]

\* what a retried callback found when it arrived: the stored session, the
\* users and the messages
NoSnap == [redis |-> NoSession, users |-> {}, messages |-> << >>]

NoCallback == [sid |-> "", phone |-> None, has_text |-> FALSE, input |-> None]

IdleReq ==
    [pc |-> "idle", sid |-> "", phone |-> None, has_text |-> FALSE, input |-> None,
     user |-> NoUser, session |-> NoSession, step0 |-> "", fresh |-> FALSE,
     resp |-> << >>, env |-> CalmEnv, newuser |-> NoUser, msg |-> NoMsg,
     sms_to |-> None, retry |-> "", snap |-> NoSnap]

VARIABLES
    users,       \* rows of the users table
    messages,    \* rows of the messages table, in insertion order
    redis,       \* session id -> stored session record
    failed_sms,  \* the Redis list "failed_sms"
    sms,         \* messages the SMS gateway was asked to send
    req,         \* worker -> the request it is handling
    out,         \* the response returned since the last callback arrived
    attempts,    \* session id -> question submissions handled (saturating)
    redelivered, \* overlapping redeliveries so far
    ttl,         \* session id -> remaining lifetime of its key, in clock ticks
    quiet,       \* session id -> clock ticks since its record was last saved
    call,        \* the call of a pure function under examination
    last         \* the callback the gateway delivered last

vars == <<users, messages, redis, failed_sms, sms, req, out, attempts, redelivered, ttl, quiet, call, last>>

\* a lookup that never finds the citizen
UserNeverFound(tbl, phone) == NoUser

\* select(User).where(User.phone_number == phone).first()
UserByPhone(tbl, phone) ==
    IF \E u \in tbl : u.phone_number = phone
    THEN CHOOSE u \in tbl : u.phone_number = phone /\ \A v \in tbl : v.phone_number = phone => u.id <= v.id
    ELSE NoUser

NextId(tbl) == 1 + (IF tbl = {} THEN 0 ELSE CHOOSE n \in {u.id : u \in tbl} : \A u \in tbl : u.id <= n)

\* line 127 on a parsed value that is no container: "step" in 5 is a
\* TypeError, which load_session does not catch
load_session_raises(store, sid) == store[sid] = JsonNumber

\* load_session: the stored record when it parses and holds step, language
\* and data, None otherwise
load_session(store, sid) ==
    LET data == store[sid]
    IN  IF data = NoSession THEN NoSession
        ELSE IF data = NotJson THEN NoSession
        ELSE IF data = JsonObjectWithoutStep THEN NoSession
        ELSE data

\* a save that keeps the lifetime the key has left (SET ... KEEPTTL)
ttl_kept_after_save(remaining) == IF remaining > 0 THEN remaining ELSE TtlTicks

\* redis.set(session_id, ..., ex=expire): the lifetime of the key after a save
ttl_after_save(remaining) == TtlTicks

NoCall == [fn |-> "", arg |-> << >>, res |-> << >>]

Init ==
    /\ users \in {{}, {ExistingUser}}
    /\ messages = << >>
    /\ redis = [s \in SessionIds |-> NoSession]
    /\ failed_sms = << >>
    /\ sms = << >>
    /\ req = [w \in Workers |-> IdleReq]
    /\ out = [sid |-> "", resp |-> << >>]
    /\ attempts = [s \in SessionIds |-> 0]
    /\ redelivered = 0
    /\ ttl = [s \in SessionIds |-> 0]
    /\ quiet = [s \in SessionIds |-> 0]
    /\ call = NoCall
    /\ last = NoCallback

(***************************************************************************)
(* ussd_callback: the code between loading the session and the first       *)
(* await that writes                                                       *)
(***************************************************************************)
\* a consent step that takes any answer for a yes
consents_always(has_text, cur) == TRUE

\* line 266: user_response and current_input == "1"
consents(has_text, cur) == has_text /\ cur = One

\* a handler without back navigation
is_back_never(cur, step) == FALSE

\* line 213: current_input == "0" and step not in [consent, returning_language_option]
is_back(cur, step) == cur = Zero /\ step \notin {"consent", "returning_language_option"}

\* a registration that advances the session without writing the user
create_user_skipped == "save"

\* lines 323-333: the new user is added and committed
create_user_step == "commit_user"

\* back_map sending topic_menu to register_district whoever the caller is
back_map_no_user_check(step, user) ==
    CASE step = "select_language" -> "consent"
      [] step = "register_name" -> "select_language"
      [] step = "register_district" -> "register_name"
      [] step = "topic_menu" -> "register_district"
      [] step = "ask_question" -> "topic_menu"
      [] OTHER -> step

\* back_map.get(step, step) of the back navigation
back_map(step, user) ==
    CASE step = "select_language" -> "consent"
      [] step = "register_name" -> "select_language"
      [] step = "register_district" -> "register_name"
      [] step = "topic_menu" -> IF user = NoUser THEN "register_district" ELSE "returning_language_option"
      [] step = "ask_question" -> "topic_menu"
      [] OTHER -> step

\* the response text built by the back navigation
BackResponse(step, language) ==
    IF step = "topic_menu" THEN <<"CON ">> \o PromptOrWelcome(step, language) \o <<"format_topics", language>>
    ELSE IF step = "returning_language_option" THEN <<"PROMPTS", "returning_language_option", language>>
    ELSE <<"CON ">> \o PromptOrWelcome(step, language)

TopicMenu(language) == <<"PROMPTS", "ask_topic", language, "format_topics", language>>

\* a handler that logs the constructor's error and goes on to the SMS
AfterMessageCtorSwallow(raised) == IF raised THEN "send_sms" ELSE "commit_msg"

\* what happens after a Message(...) constructor call
AfterMessageCtor(raised) == IF raised THEN "error_delete" ELSE "commit_msg"

\* the result of one stretch of handler code: where the coroutine waits
\* next, its session dict, its response text and what it is about to write
Outcome(next, session, resp) ==
    [next |-> next, session |-> session, resp |-> resp, newuser |-> NoUser,
     msg |-> NoMsg, sms_to |-> None, submit |-> FALSE]

\* elif step == "register_district"
register_district(rq, tbl) ==
    LET session == rq.session
        language == session.language
        cur == rq.input
    IN  IF Falsy(cur) THEN
            Outcome("save", session, <<"CON ", "PROMPTS", "register_district", language>>)
        ELSE IF ~validate_district(cur) THEN
            Outcome("save", session,
                    <<"CON ", "Invalid district.", "PROMPTS", "register_district", language>>)
        ELSE
            LET data == [session.data EXCEPT !.district = Title(cur)]
                advanced == [session EXCEPT !.data = data, !.step = "topic_menu"]
                resp == <<"CON ">> \o TopicMenu(language)
            IN  IF rq.user # NoUser THEN Outcome("save", advanced, resp)
                ELSE IF UserByPhone(tbl, rq.phone) # NoUser THEN
                    Outcome("return", session, <<"END ", "This phone number is already registered.">>)
                ELSE IF data.name = None THEN
                    \* user_data["name"]: KeyError
                    Outcome("error_delete", session, << >>)
                ELSE
                    LET names == Words(data.name)
                    IN  [Outcome(create_user_step, advanced, resp) EXCEPT
                            !.newuser = [id |-> 0, phone_number |-> rq.phone,
                                         first_name |-> names[1],
                                         last_name |-> IF Len(names) > 1 THEN names[Len(names)] ELSE << >>,
                                         district_id |-> data.district,
                                         preferred_language |-> language]]

\* elif step == "ask_question"
ask_question(rq, env) ==
    LET session == rq.session
        language == session.language
        user == rq.user
        question == IF Falsy(rq.input) THEN << >> ELSE sanitize_input(Strip(rq.input))
        is_spam == env.mod = "spam"
        is_offensive == env.mod = "offensive"
        raised == MessageCtorRaises(MessageKwargs)
    IN  IF question = << >> THEN
            Outcome("save", session, <<"CON ", "PROMPTS", "question", language>>)
        ELSE IF user = NoUser THEN
            Outcome("return", session, <<"END ", "Session error. Please start over.">>)
        ELSE IF is_spam \/ is_offensive THEN
            [Outcome(AfterMessageCtor(raised), session, << >>) EXCEPT
                !.submit = TRUE,
                !.msg = [sender_id |-> user.id, recipient_id |-> 0, content |-> question,
                         district_id |-> user.district_id, mp_id |-> 0,
                         is_flagged |-> TRUE, sid |-> rq.sid]]
        ELSE
            LET to == resolve_mp(MPS, user.district_id)
                recipient_id == to.recipient_id
                recipient_phone == to.recipient_phone
                normalized == normalize_phone_number(recipient_phone)
            IN  [Outcome(AfterMessageCtor(raised), session, << >>) EXCEPT
                    !.submit = TRUE,
                    !.msg = [sender_id |-> user.id, recipient_id |-> recipient_id,
                             content |-> question, district_id |-> user.district_id,
                             mp_id |-> recipient_id, is_flagged |-> FALSE, sid |-> rq.sid],
                    !.sms_to = IF StartsWith(normalized, <<"+","2","5","6">>) THEN normalized
                               ELSE <<"+","2","5","6">> \o LStrip(normalized)]

\* lines 209-438 up to the first write
ussd_step(rq, tbl, env) ==
    LET session == rq.session
        user == rq.user
        cur == rq.input
        language == session.language
        step == session.step
    IN  IF is_back(cur, step) THEN
            LET to == back_map(step, user)
            IN  Outcome("save", [session EXCEPT !.step = to], BackResponse(to, language))
        ELSE IF user # NoUser /\ step = "consent" THEN
            LET lang == IF user.preferred_language = "" THEN "EN" ELSE user.preferred_language
            IN  Outcome("save",
                        [session EXCEPT !.step = "returning_language_option",
                                        !.language = lang, !.user_id = user.id],
                        <<"CON ", "Welcome back", "PROMPTS", "returning_language_option", lang>>)
        ELSE IF step = "returning_language_option" THEN
            IF cur = One THEN
                Outcome("save", [session EXCEPT !.step = "select_language"],
                        <<"CON ">> \o SelectLanguageMenu \o <<"0. Back">>)
            ELSE IF cur = Two THEN
                Outcome("save", [session EXCEPT !.step = "topic_menu"], <<"CON ">> \o TopicMenu(language))
            ELSE
                Outcome("save", session,
                        <<"CON ", "Invalid choice. Please select 1 or 2.",
                          "PROMPTS", "returning_language_option", language>>)
        ELSE IF step = "consent" THEN
            IF ~consents(rq.has_text, cur) THEN
                Outcome("return", session, <<"END ", "You must consent to continue.">>)
            ELSE
                Outcome("save", [session EXCEPT !.step = "select_language"], <<"CON ">> \o SelectLanguageMenu)
        ELSE IF step = "select_language" THEN
            IF Falsy(cur) \/ cur \notin LanguageKeys THEN
                Outcome("save", session,
                        <<"CON ", "Invalid choice. Please select a valid language:">>
                            \o SelectLanguageMenu \o <<"0. Back">>)
            ELSE
                LET lang == LANGUAGES[cur]
                IN  IF user # NoUser THEN
                        Outcome("commit_lang",
                                [session EXCEPT !.language = lang, !.step = "topic_menu"],
                                <<"CON ", "Language updated to", lang>> \o TopicMenu(lang))
                    ELSE
                        Outcome("save", [session EXCEPT !.language = lang, !.step = "register_name"],
                                <<"CON ", "PROMPTS", "register_name", lang>>)
        ELSE IF step = "register_name" THEN
            IF Falsy(cur) THEN
                Outcome("save", session, <<"CON ", "PROMPTS", "register_name", language>>)
            ELSE IF ~validate_name(cur) THEN
                Outcome("save", session,
                        <<"CON ", "Invalid name. Use letters and spaces only.",
                          "PROMPTS", "register_name", language>>)
            ELSE
                Outcome("save",
                        [session EXCEPT !.data = [session.data EXCEPT !.name = cur],
                                        !.step = "register_district"],
                        <<"CON ", "PROMPTS", "register_district", language>>)
        ELSE IF step = "register_district" THEN register_district(rq, tbl)
        ELSE IF step = "topic_menu" THEN
            IF Falsy(cur) THEN
                Outcome("save", session, <<"CON ">> \o TopicMenu(language))
            ELSE IF IsDigitStr(cur) /\ 1 <= IntOf(cur) /\ IntOf(cur) <= Len(TOPICS[language]) THEN
                Outcome("save",
                        [session EXCEPT !.data = [session.data EXCEPT !.topic = TOPICS[language][IntOf(cur)]],
                                        !.step = "ask_question"],
                        <<"CON ", "PROMPTS", "question", language>>)
            ELSE
                Outcome("save", session, <<"CON ", "Invalid choice.">> \o TopicMenu(language))
        ELSE IF step = "ask_question" THEN ask_question(rq, env)
        ELSE
            \* no branch assigns response_text: UnboundLocalError
            Outcome("error_delete", session, << >>)

(***************************************************************************)
(* Actions                                                                 *)
(***************************************************************************)
\* return PlainTextResponse(content=resp)
Finish(w, resp) ==
    /\ req' = [req EXCEPT ![w] = IdleReq]
    /\ out' = [sid |-> req[w].sid, resp |-> resp]

DatabaseError == <<"END ", "Database error. Please try again later.">>

SomethingWentWrong == <<"END ", "Something went wrong. Please try again shortly.">>

FlaggedNotice == <<"END ", "Your message was flagged as inappropriate and will be reviewed.">>

SavedNoSms == <<"END ", "Message saved but SMS failed to send.">>

SentToMp == <<"END ", "Thank you! Your message has been sent successfully to your MP.">>

\* a users table without the unique index on phone_number
NoUniqueIndex(tbl, u) == FALSE

\* the unique index on users.phone_number rejects the INSERT
UniqueViolation(tbl, u) == \E v \in tbl : v.phone_number = u.phone_number

\* line 200: a callback starts to be handled: load the user of its phone
Arrive(w, sid, phone, has_text, input, retry, snap) ==
    /\ req[w].pc = "idle"
    /\ \A v \in Workers : v < w => req[v].pc # "idle"
    /\ Len(messages) < MaxMessages /\ Len(sms) < MaxMessages /\ Len(failed_sms) < MaxMessages
    /\ req' = [req EXCEPT ![w] =
                  [IdleReq EXCEPT !.pc = "load_session", !.sid = sid, !.phone = phone,
                                  !.has_text = has_text, !.input = input,
                                  !.user = UserByPhone(users, phone),
                                  !.retry = retry, !.snap = snap]]
    /\ out' = [sid |-> "", resp |-> << >>]
    /\ last' = [sid |-> sid, phone |-> phone, has_text |-> has_text, input |-> input]
    /\ UNCHANGED <<users, messages, redis, failed_sms, sms, attempts, ttl, quiet, call>>

\* lines 193-201: the gateway delivers a callback while no other is being
\* handled; parse it, normalize the phone, load the user
Receive(w, sid, raw, text) ==
    /\ \A v \in Workers : req[v].pc = "idle"
    /\ LET user_response == user_response_of(Strip(text))
       IN  Arrive(w, sid, normalize_phone_number(raw), user_response # << >>,
                  current_input_of(user_response), "", NoSnap)
    /\ UNCHANGED redelivered

\* the gateway retries a callback that is still being handled: the same
\* session id, phone and text arrive again and the two executions overlap
Redeliver(w) ==
    /\ redelivered < MaxRedeliveries
    /\ redelivered' = redelivered + 1
    /\ \E v \in Workers :
          /\ req[v].pc # "idle"
          /\ Arrive(w, req[v].sid, req[v].phone, req[v].has_text, req[v].input, "", NoSnap)

\* line 204: load or initialize the session
LoadSession(w) ==
    /\ req[w].pc = "load_session"
    /\ IF load_session_raises(redis, req[w].sid)
       THEN req' = [req EXCEPT ![w].pc = "error_delete"]
       ELSE LET stored == load_session(redis, req[w].sid)
                session == IF stored # NoSession THEN stored
                           ELSE [step |-> "consent", language |-> "EN", data |-> EmptyData,
                                 user_id |-> req[w].user.id]
            IN  req' = [req EXCEPT ![w].pc = "handle", ![w].session = session,
                                   ![w].step0 = session.step, ![w].fresh = (stored = NoSession)]
    /\ UNCHANGED <<users, messages, redis, failed_sms, sms, out, attempts, redelivered, ttl, quiet, call, last>>

\* the collaborators a handler in this step can call
EnvsAt(step) ==
    IF step = "ask_question" THEN Envs
    ELSE IF step \in {"select_language", "register_district"} THEN {e \in Envs : e.mod = "clean" /\ e.sms}
    ELSE {CalmEnv}

\* lines 209-438 up to the first write; the collaborators' answers to this
\* request are fixed here
Handle(w) ==
    /\ req[w].pc = "handle"
    /\ \E env \in EnvsAt(req[w].session.step) : \E h \in {ussd_step(req[w], users, env)} :
         LET usesdb == h.next \in {"commit_lang", "commit_user", "commit_msg"}
             kept == [mod |-> IF h.submit THEN env.mod ELSE "clean",
                      db |-> IF usesdb THEN env.db ELSE TRUE,
                      sms |-> IF h.submit THEN env.sms ELSE TRUE]
         IN  /\ attempts' = IF h.submit
                            THEN [attempts EXCEPT ![req[w].sid] =
                                     IF @ < MaxAttempts THEN @ + 1 ELSE @]
                            ELSE attempts
             /\ IF h.next = "return" THEN Finish(w, h.resp)
                ELSE /\ req' = [req EXCEPT ![w].pc = h.next, ![w].session = h.session,
                                           ![w].resp = h.resp, ![w].env = kept,
                                           ![w].newuser = h.newuser, ![w].msg = h.msg,
                                           ![w].sms_to = h.sms_to]
                     /\ out' = out
    /\ UNCHANGED <<users, messages, redis, failed_sms, sms, redelivered, ttl, quiet, call, last>>

\* the coroutine resumes at the await it is waiting on
Resume(w) ==
    LET rq == req[w]
        sid == rq.sid
    IN  CASE rq.pc = "save" ->
               \* line 228, 243, 261, 291, 441: save_session
               /\ redis' = [redis EXCEPT ![sid] = rq.session]
               /\ ttl' = [ttl EXCEPT ![sid] = ttl_after_save(@)]
               /\ quiet' = [quiet EXCEPT ![sid] = 0]
               /\ Finish(w, rq.resp)
               /\ UNCHANGED <<users, messages, failed_sms, sms, attempts, redelivered, call, last>>
          [] rq.pc = "delete" ->
               \* line 389, 437: delete_session
               /\ redis' = [redis EXCEPT ![sid] = NoSession]
               /\ ttl' = [ttl EXCEPT ![sid] = 0]
               /\ quiet' = [quiet EXCEPT ![sid] = 0]
               /\ Finish(w, rq.resp)
               /\ UNCHANGED <<users, messages, failed_sms, sms, attempts, redelivered, call, last>>
          [] rq.pc = "error_delete" ->
               \* lines 448-451: except Exception
               /\ redis' = [redis EXCEPT ![sid] = NoSession]
               /\ ttl' = [ttl EXCEPT ![sid] = 0]
               /\ quiet' = [quiet EXCEPT ![sid] = 0]
               /\ Finish(w, SomethingWentWrong)
               /\ UNCHANGED <<users, messages, failed_sms, sms, attempts, redelivered, call, last>>
          [] rq.pc = "commit_lang" ->
               \* lines 284-285
               IF rq.env.db
               THEN /\ users' = {IF u.id = rq.user.id
                                 THEN [u EXCEPT !.preferred_language = rq.session.language]
                                 ELSE u : u \in users}
                    /\ req' = [req EXCEPT ![w].pc = "save"]
                    /\ UNCHANGED <<messages, redis, failed_sms, sms, out, attempts, redelivered, ttl, quiet, call, last>>
               ELSE /\ Finish(w, DatabaseError)
                    /\ UNCHANGED <<users, messages, redis, failed_sms, sms, attempts, redelivered, ttl, quiet, call, last>>
          [] rq.pc = "commit_user" ->
               \* lines 332-336
               IF rq.env.db /\ ~UniqueViolation(users, rq.newuser)
               THEN LET id == NextId(users)
                        created == [rq.newuser EXCEPT !.id = id]
                    IN  /\ users' = users \cup {created}
                        /\ req' = [req EXCEPT ![w].pc = "save", ![w].user = created,
                                              ![w].session.user_id = id]
                        /\ UNCHANGED <<messages, redis, failed_sms, sms, out, attempts, redelivered, ttl, quiet, call, last>>
               ELSE /\ Finish(w, DatabaseError)
                    /\ UNCHANGED <<users, messages, redis, failed_sms, sms, attempts, redelivered, ttl, quiet, call, last>>
          [] rq.pc = "commit_msg" ->
               \* lines 382-390 and 415-420
               IF rq.env.db
               THEN /\ messages' = Append(messages, rq.msg)
                    /\ req' = [req EXCEPT
                                 ![w].pc = IF rq.msg.is_flagged THEN "delete" ELSE "send_sms",
                                 ![w].resp = IF rq.msg.is_flagged THEN FlaggedNotice ELSE << >>]
                    /\ UNCHANGED <<users, redis, failed_sms, sms, out, attempts, redelivered, ttl, quiet, call, last>>
               ELSE /\ Finish(w, <<"END ", "Something went wrong saving your message.">>)
                    /\ UNCHANGED <<users, messages, redis, failed_sms, sms, attempts, redelivered, ttl, quiet, call, last>>
          [] rq.pc = "send_sms" ->
               \* lines 423-435
               IF rq.env.sms
               THEN /\ sms' = Append(sms, [phone |-> rq.sms_to, sid |-> sid, failed |-> FALSE])
                    /\ req' = [req EXCEPT ![w].pc = "delete",
                                          ![w].resp = SentToMp]
                    /\ UNCHANGED <<users, messages, redis, failed_sms, out, attempts, redelivered, ttl, quiet, call, last>>
               ELSE /\ sms' = Append(sms, [phone |-> rq.sms_to, sid |-> sid, failed |-> TRUE])
                    /\ failed_sms' = Append(failed_sms, [phone |-> rq.sms_to, sid |-> sid])
                    /\ req' = [req EXCEPT ![w].pc = "delete",
                                          ![w].resp = SavedNoSms]
                    /\ UNCHANGED <<users, messages, redis, out, attempts, redelivered, ttl, quiet, call, last>>
          [] OTHER -> FALSE

\* one clock tick passes for a stored key; the store drops the key when its
\* time to live has run out
Tick(sid) ==
    /\ ttl[sid] > 0
    /\ ttl' = [ttl EXCEPT ![sid] = @ - 1]
    /\ IF ttl[sid] = 1
       THEN /\ redis' = [redis EXCEPT ![sid] = NoSession]
            /\ quiet' = [quiet EXCEPT ![sid] = 0]
       ELSE /\ redis' = redis
            /\ quiet' = [quiet EXCEPT ![sid] = @ + 1]
    /\ UNCHANGED <<users, messages, failed_sms, sms, req, out, attempts, redelivered, call, last>>

\* between two callbacks the value stored for a session is damaged
Corrupt(sid, v) ==
    /\ \A w \in Workers : req[w].pc = "idle"
    /\ redis[sid] \notin Garbage \cup {NoSession}
    /\ redis' = [redis EXCEPT ![sid] = v]
    /\ UNCHANGED <<users, messages, failed_sms, sms, req, out, attempts, redelivered, ttl, quiet, call, last>>

\* the process stops while it handles a request: no response is returned,
\* and what was not committed or saved is lost
Crash(w) ==
    /\ req[w].pc # "idle"
    /\ req' = [req EXCEPT ![w] = [IdleReq EXCEPT !.retry = "stopped"]]
    /\ UNCHANGED <<users, messages, redis, failed_sms, sms, out, attempts, redelivered, ttl, quiet, call, last>>

\* the gateway delivers the last callback once more, after its response was
\* returned or after the process stopped
Replay(w) ==
    /\ \A v \in Workers : req[v].pc = "idle"
    /\ last # NoCallback
    /\ Arrive(w, last.sid, last.phone, last.has_text, last.input,
              IF out.resp # << >> THEN "returned" ELSE "crashed",
              [redis |-> redis[last.sid], users |-> users, messages |-> messages])
    /\ UNCHANGED redelivered

\* callbacks processed one at a time
NextSeq ==
    \/ \E w \in Workers, sid \in SessionIds, raw \in RawPhones, text \in Texts : Receive(w, sid, raw, text)
    \/ \E w \in Workers : LoadSession(w)
    \/ \E w \in Workers : Handle(w)
    \/ \E w \in Workers : Resume(w)
    \/ \E sid \in SessionIds : Tick(sid)
    \/ \E sid \in SessionIds, v \in Garbage : Corrupt(sid, v)

SpecSeq == Init /\ [][NextSeq]_vars

\* callbacks processed one at a time by a process that may stop, with the
\* gateway delivering a callback again
NextRetry ==
    \/ \E w \in Workers, sid \in SessionIds, raw \in RawPhones, text \in Texts : Receive(w, sid, raw, text)
    \/ \E w \in Workers : Replay(w)
    \/ \E w \in Workers : Crash(w)
    \/ \E w \in Workers : LoadSession(w)
    \/ \E w \in Workers : Handle(w)
    \/ \E w \in Workers : Resume(w)
    \/ \E sid \in SessionIds : Tick(sid)
    \/ \E sid \in SessionIds, v \in Garbage : Corrupt(sid, v)

SpecRetry == Init /\ [][NextRetry]_vars

\* callbacks whose executions may overlap with their redeliveries
Next ==
    \/ \E w \in Workers, sid \in SessionIds, raw \in RawPhones, text \in Texts : Receive(w, sid, raw, text)
    \/ \E w \in Workers : Redeliver(w)
    \/ \E w \in Workers : LoadSession(w)
    \/ \E w \in Workers : Handle(w)
    \/ \E w \in Workers : Resume(w)
    \/ \E sid \in SessionIds : Tick(sid)
    \/ \E sid \in SessionIds, v \in Garbage : Corrupt(sid, v)

Spec == Init /\ [][Next]_vars

(***************************************************************************)
(* The pure functions applied to inputs drawn from bounded sets            *)
(***************************************************************************)
\* longest raw phone text examined
MaxRawLen == 4

PhoneChars == {"0", "2", "5", "6", "7", "+", " "}

\* raw phoneNumber values: None and every text over PhoneChars
RawInputs == {None} \cup UNION {[1..n -> PhoneChars] : n \in 0..MaxRawLen}

\* 9-digit national numbers whose first digit is not 0
NationalNumbers == {h \o t : h \in [1..3 -> {"2", "5", "6", "7"}], t \in [1..6 -> {"0", "9"}]}

KampalaDistrict == Kampala \o <<" ","D","i","s","t","r","i","c","t">>

KampalaCentral == Kampala \o <<" ","C","e","n","t","r","a","l">>

\* district_id values of a citizen
CitizenDistricts ==
    { None, << >>, Kampala, Lower(Kampala), KampalaDistrict, KampalaCentral,
      <<" ">> \o KampalaDistrict, <<"K","a","m">>, <<"G","u","l","u">>,
      <<"M","b","a","l","e">>, <<"D","i","s","t","r","i","c","t">> }

\* contents of the mps table
MpTables ==
    { << >>, MPS, <<MPS[2], MPS[1]>>,
      <<[id |-> 3, user_id |-> 9, district_id |-> KampalaCentral, phone_number |-> <<"0","7","7">>], MPS[2]>>,
      <<MPS[1], [id |-> 3, user_id |-> 9, district_id |-> KampalaCentral, phone_number |-> <<"0","7","7">>]>>,
      <<MPS[2], [id |-> 3, user_id |-> 9, district_id |-> KampalaCentral, phone_number |-> <<"0","7","7">>]>>,
      <<[id |-> 4, user_id |-> 10, district_id |-> None, phone_number |-> <<"0","7","6">>]>> }

\* accumulated texts: one or two levels of input
LevelTexts ==
    { << >>, <<"1","*">>, Zero, <<"1","*","0">>, One, <<"9","*","1">>,
      Two, <<"1","*","2">>, <<" ","2">>, <<"1","*"," ","2">>, <<"1","*","2"," ">>,
      Kampala, <<"1","*">> \o Kampala }

Steps ==
    {"consent", "returning_language_option", "select_language", "register_name",
     "register_district", "topic_menu", "ask_question"}

\* the request ussd_callback builds from a text, once user and session are loaded
RequestOf(text, user, session) ==
    LET user_response == user_response_of(Strip(text))
    IN  [IdleReq EXCEPT !.pc = "handle", !.sid = "s1", !.phone = ExistingUser.phone_number,
                        !.has_text = (user_response # << >>),
                        !.input = current_input_of(user_response),
                        !.user = user, !.session = session, !.step0 = session.step]

\* the segment after the last "*" of a text
LastSegment(text) ==
    LET stars == {i \in 1..Len(text) : text[i] = "*"}
    IN  IF stars = {} THEN text
        ELSE SubSeq(text, 1 + (CHOOSE i \in stars : \A j \in stars : j <= i), Len(text))

\* one call is examined in each run
InitPure == Init /\ users = {}

CallNormalize(x) ==
    /\ call = NoCall
    /\ call' = [fn |-> "normalize_phone_number", arg |-> x,
                res |-> <<normalize_phone_number(x),
                          normalize_phone_number(normalize_phone_number(x))>>]
    /\ UNCHANGED <<users, messages, redis, failed_sms, sms, req, out, attempts, redelivered, ttl, quiet, last>>

\* the four ways of writing one national number
CallForms(n) ==
    /\ call = NoCall
    /\ call' = [fn |-> "forms", arg |-> n,
                res |-> <<normalize_phone_number(<<"0">> \o n),
                          normalize_phone_number(n),
                          normalize_phone_number(<<"2","5","6">> \o n),
                          normalize_phone_number(<<"+","2","5","6">> \o n)>>]
    /\ UNCHANGED <<users, messages, redis, failed_sms, sms, req, out, attempts, redelivered, ttl, quiet, last>>

CallResolve(mps, district_id) ==
    /\ call = NoCall
    /\ call' = [fn |-> "resolve_mp", arg |-> <<mps, district_id>>, res |-> resolve_mp(mps, district_id)]
    /\ UNCHANGED <<users, messages, redis, failed_sms, sms, req, out, attempts, redelivered, ttl, quiet, last>>

\* two callbacks that differ in their text only, handled from the same
\* stored session for the same phone
CallStep(t1, t2, user, step) ==
    /\ call = NoCall
    /\ t1 # t2
    /\ LastSegment(t1) = LastSegment(t2)
    /\ LET session == [step |-> step, language |-> "EN",
                       data |-> [name |-> Kampala, district |-> Kampala, topic |-> "Health"],
                       user_id |-> user.id]
           tbl == IF user = NoUser THEN {} ELSE {user}
       IN  call' = [fn |-> "ussd_step", arg |-> <<t1, t2, user.id, step>>,
                    res |-> <<ussd_step(RequestOf(t1, user, session), tbl, CalmEnv),
                              ussd_step(RequestOf(t2, user, session), tbl, CalmEnv)>>]
    /\ UNCHANGED <<users, messages, redis, failed_sms, sms, req, out, attempts, redelivered, ttl, quiet, last>>

\* district texts a subscriber enters in register_district
DistrictInputs ==
    (CitizenDistricts \ {None, << >>}) \cup {<<"g","u","l","u">>, <<"G","U","L","U">>, Lower(KampalaDistrict)}

\* register_district accepts the input and stores its title-cased form as
\* the district of the new user; ask_question resolves that district
\* against the same representatives
CallDistrict(mps, input) ==
    /\ call = NoCall
    /\ call' = [fn |-> "register_district", arg |-> <<mps, input>>,
                res |-> [raises |-> validate_district_raises(mps),
                         accepted |-> ~validate_district_raises(mps) /\ validate_district_in(mps, input),
                         to |-> resolve_mp(mps, Title(input))]]
    /\ UNCHANGED <<users, messages, redis, failed_sms, sms, req, out, attempts, redelivered, ttl, quiet, last>>

\* a text longer than a stored question may be
LongText == [i \in 1..(MaxQuestionLen + 1) |-> "a"]

\* accumulated texts whose last level is the question
QuestionTexts ==
    { << >>, <<"<">>, <<">","<">>, <<"<"," ",">">>, <<"1","*","<",">">>, <<"1","*">>,
      <<"a","<","b",">">>, <<"1","*","<","a">>, <<"P","s",">">>,
      LongText, <<"<">> \o LongText, <<"1","*">> \o LongText \o <<">">>,
      SubSeq(LongText, 1, MaxQuestionLen - 1) \o <<"<","b","c">> }

\* the question callback of a registered citizen
CallQuestion(text, env) ==
    /\ call = NoCall
    /\ LET session == [step |-> "ask_question", language |-> "EN",
                       data |-> [name |-> Kampala, district |-> Kampala, topic |-> "Health"],
                       user_id |-> ExistingUser.id]
       IN  call' = [fn |-> "ask_question", arg |-> text,
                    res |-> ussd_step(RequestOf(text, ExistingUser, session), {ExistingUser}, env)]
    /\ UNCHANGED <<users, messages, redis, failed_sms, sms, req, out, attempts, redelivered, ttl, quiet, last>>

NextPure ==
    \/ \E x \in RawInputs : CallNormalize(x)
    \/ \E n \in NationalNumbers : CallForms(n)
    \/ \E mps \in MpTables, d \in CitizenDistricts : CallResolve(mps, d)
    \/ \E t1 \in LevelTexts, t2 \in LevelTexts, user \in {NoUser, ExistingUser}, step \in Steps :
          CallStep(t1, t2, user, step)
    \/ \E mps \in MpTables, input \in DistrictInputs : CallDistrict(mps, input)
    \/ \E text \in QuestionTexts, env \in Envs : CallQuestion(text, env)

SpecPure == InitPure /\ [][NextPure]_vars

(***************************************************************************)
(* Properties                                                              *)
(***************************************************************************)
\* worker w returns its response in this step
Finishes(w) == req[w].pc # "idle" /\ req'[w] = IdleReq

\* the request is a question submission: a non-empty sanitized question of
\* a known citizen in step ask_question
Submits(rq) == rq.pc # "idle" /\ rq.msg # NoMsg

MessagesOf(msgs, sid) == {i \in 1..Len(msgs) : msgs[i].sid = sid}

\* the session collected name, district and topic: the conversation went
\* through the registration steps
Registered(session) ==
    session.data.name # None /\ session.data.district # None /\ session.data.topic # ""

\* C1: when the question callback that ends a registration conversation
\* (consent, language, name, district, topic, question) returns, for an
\* unflagged question and a database that accepts every commit, exactly one
\* Citizen and exactly one Message exist and no session record remains.
C1_OneCitizenOneMessage ==
    [][\A w \in Workers :
          (Finishes(w) /\ Submits(req[w]) /\ ~req[w].msg.is_flagged /\ req[w].env.db
              /\ Registered(req[w].session))
          => /\ Cardinality(users') = 1
             /\ Len(messages') = 1
             /\ redis'[req[w].sid] = NoSession]_vars

\* C2: every response returned begins with "CON " or "END ".
C2_ResponsePrefix == out.resp # << >> => out.resp[1] \in {"CON ", "END "}

C4_FlaggedPersisted ==
    [][\A w \in Workers :
          (Finishes(w) /\ Submits(req[w]) /\ req[w].msg.is_flagged /\ req[w].env.db)
          => /\ \E i \in MessagesOf(messages', req[w].sid) :
                   messages'[i].is_flagged /\ messages'[i].recipient_id = 0
             /\ \A i \in 1..Len(sms') : sms'[i].sid # req[w].sid
             /\ redis'[req[w].sid] = NoSession
             /\ out'.resp = FlaggedNotice]_vars

\* C5: an SMS is dispatched only by a request whose unflagged Message is
\* already committed.
C5_SmsAfterCommit ==
    [][Len(sms') > Len(sms)
          => \E w \in Workers :
                /\ Submits(req[w])
                /\ sms'[Len(sms')].sid = req[w].sid
                /\ ~req[w].msg.is_flagged
                /\ \E i \in 1..Len(messages) : messages[i] = req[w].msg]_vars

\* a question submission was handled, no Message was created and no SMS
\* was dispatched
C5_Witness ==
    \E s \in SessionIds :
        /\ attempts[s] >= 1
        /\ out = [sid |-> s, resp |-> SomethingWentWrong]
        /\ messages = << >>
        /\ sms = << >>

\* C6: when the question callback of an unflagged question returns while
\* the database accepts commits and the SMS gateway refuses the message,
\* the Message is stored, the response is the saved-but-not-sent text, the
\* SMS is on the retry queue and the session record is gone.
C6_SmsFailureKeepsMessage ==
    [][\A w \in Workers :
          (Finishes(w) /\ Submits(req[w]) /\ ~req[w].msg.is_flagged
              /\ req[w].env.db /\ ~req[w].env.sms)
          => /\ \E i \in 1..Len(messages') : messages'[i] = req[w].msg
             /\ out'.resp = SavedNoSms
             /\ \E i \in 1..Len(failed_sms') : failed_sms'[i].sid = req[w].sid
             /\ redis'[req[w].sid] = NoSession]_vars

\* C7: for a phone that has a Citizen from the start, the first callback of
\* a session stores returning_language_option, no session record is ever in
\* register_name or register_district, and no other Citizen is created.
C7_ReturningUser ==
    /\ (users # {}) =>
          [](/\ \A s \in SessionIds : redis[s].step \notin {"register_name", "register_district"}
             /\ Cardinality(users) = 1)
    /\ [][\A w \in Workers :
             (Finishes(w) /\ req[w].fresh /\ req[w].user # NoUser)
             => redis'[req[w].sid].step = "returning_language_option"]_vars

\* a known citizen stands in topic_menu without having been asked name or
\* district
C7_Witness ==
    \E s \in SessionIds :
        /\ redis[s].step = "topic_menu"
        /\ redis[s].data.name = None
        /\ redis[s].data.district = None
        /\ users # {}

\* C8: at most one Citizen exists per canonical phone number.
C8_OneCitizenPerPhone ==
    \A u, v \in users :
        normalize_phone_number(u.phone_number) = normalize_phone_number(v.phone_number) => u = v

\* two overlapping district callbacks: the second is about to insert a
\* Citizen for a phone that has one by now
C8_Witness ==
    /\ redelivered >= 1
    /\ \E w \in Workers : req[w].pc = "commit_user" /\ UniqueViolation(users, req[w].newuser)

\* C9: after a callback that returned a terminal response, no session
\* record is stored for its session id.
C9_NoSessionAfterEnd ==
    (out.resp # << >> /\ out.resp[1] = "END ") => redis[out.sid] = NoSession

\* inputs a state rejects (the back token apart); the name rule is stated
\* on its own, letters and blanks only
LettersOnly(s) == s # None /\ Strip(s) # << >> /\ \A i \in 1..Len(s) : IsLetter(s[i]) \/ s[i] = " "

TopicNumbers == {<<"1">>, <<"2">>, <<"3">>, <<"4">>, <<"5">>}

InvalidFor(rq) ==
    LET cur == rq.input
    IN  CASE rq.step0 = "consent" -> rq.user = NoUser /\ cur # One
          [] rq.step0 = "returning_language_option" -> cur \notin {One, Two}
          [] rq.step0 = "select_language" -> cur # Zero /\ cur \notin LanguageKeys
          [] rq.step0 = "register_name" -> cur # Zero /\ ~LettersOnly(cur)
          [] rq.step0 = "register_district" -> cur # Zero /\ (Falsy(cur) \/ NormDistrict(cur) \notin valid_districts)
          [] rq.step0 = "topic_menu" -> cur # Zero /\ cur \notin TopicNumbers
          [] rq.step0 = "ask_question" -> cur # Zero /\ (Falsy(cur) \/ RemoveAngle(Strip(cur)) = << >>)
          [] OTHER -> FALSE

\* the session of the request has been loaded
Loaded(rq) == rq.pc \notin {"idle", "load_session"}

Unusable(v) == v \in Garbage \cup {NoSession}

\* C11: a callback whose session id has no usable record in the store
\* (nothing stored, not JSON, or JSON lacking step, language or data) is
\* handled from state consent, and the response it returns begins with
\* "CON " or "END ".
C11_UnusableRecordRestarts ==
    [][\A w \in Workers :
          /\ (req[w].pc = "load_session" /\ req'[w].pc # "load_session"
                 /\ Unusable(redis[req[w].sid]))
             => (req'[w].pc = "handle" /\ req'[w].session.step = "consent")
          /\ (Finishes(w) /\ req[w].fresh)
             => (req[w].step0 = "consent" /\ out'.resp[1] \in {"CON ", "END "})]_vars

\* C12: normalize_phone_number applied to its own result returns that
\* result, for every raw input (None, empty, with blanks, with or without
\* 0, 256 or +256 in front).
C12_NormalizeIdempotent ==
    call.fn = "normalize_phone_number" => call.res[2] = call.res[1]

\* a locally dialled number written with blanks has been normalized twice
C12_Witness ==
    /\ call.fn = "normalize_phone_number"
    /\ call.arg = <<" ", "0", " ", "7">>
    /\ call.res = <<(<<"+","2","5","6","7">>), (<<"+","2","5","6","7">>)>>

\* C13: for a 9-digit national number n not starting with 0, "0"+n, n,
\* "256"+n and "+256"+n all normalize to "+256"+n.
C13_FourFormsOneKey ==
    call.fn = "forms" => \A i \in 1..4 : call.res[i] = <<"+","2","5","6">> \o call.arg

\* C14: the resolution answers with the first representative, in list
\* order, whose normalized district contains or is contained in the
\* citizen's normalized district, and with the fallback identity and phone
\* exactly when there is none; "Kampala District" and "kampala" resolve to
\* the representative stored as "Kampala".
C14_FirstMatchOrFallback ==
    call.fn = "resolve_mp" =>
        LET mps == call.arg[1]
            d == NormDistrict(OrEmpty(call.arg[2]))
            matches == {i \in 1..Len(mps) :
                           \/ Contains(NormDistrict(OrEmpty(mps[i].district_id)), d)
                           \/ Contains(d, NormDistrict(OrEmpty(mps[i].district_id)))}
        IN  /\ matches = {} <=>
                   call.res = [recipient_id |-> FALLBACK_MP_ID, recipient_phone |-> FALLBACK_PHONE]
            /\ matches # {} =>
                   LET first == CHOOSE i \in matches : \A j \in matches : i <= j
                   IN  call.res = [recipient_id |-> mps[first].user_id,
                                   recipient_phone |-> mps[first].phone_number]
            /\ (mps = MPS /\ call.arg[2] \in {KampalaDistrict, Lower(Kampala)})
                   => call.res.recipient_id = MPS[2].user_id

\* a citizen of "Kampala Central" was resolved to the representative of
\* "Kampala", who is listed second
C14_Witness ==
    /\ call.fn = "resolve_mp"
    /\ call.arg = <<MPS, KampalaCentral>>
    /\ call.res.recipient_id = MPS[2].user_id

\* C16: two callbacks whose texts end in the same "*"-separated segment,
\* handled for the same stored session and the same Citizen lookup, give
\* the same response and the same next state.
C16_LastSegmentOnly ==
    call.fn = "ussd_step" => call.res[1] = call.res[2]

\* C15: when the moderation step of a question callback fails and the
\* database accepts commits, the question is stored as an unflagged Message
\* by the time the callback returns.
C15_ModerationFailureCommits ==
    [][\A w \in Workers :
          (Finishes(w) /\ Submits(req[w]) /\ req[w].env.mod = "error" /\ req[w].env.db)
          => /\ ~req[w].msg.is_flagged
             /\ \E i \in 1..Len(messages') : messages'[i] = req[w].msg]_vars

\* the states "0" goes back from, and where it may lead from each
BackSteps == {"select_language", "register_name", "register_district", "topic_menu", "ask_question"}

Predecessors(step) ==
    CASE step = "select_language" -> {"consent"}
      [] step = "register_name" -> {"select_language"}
      [] step = "register_district" -> {"register_name"}
      [] step = "topic_menu" -> {"register_district", "returning_language_option"}
      [] step = "ask_question" -> {"topic_menu"}
      [] OTHER -> {}

\* C17: a callback with input "0" in select_language, register_name,
\* register_district, topic_menu or ask_question stores the predecessor of
\* that state and returns a continuing response; in consent it stores no
\* earlier state.
C17_BackToPredecessor ==
    [][\A w \in Workers :
          (Finishes(w) /\ Loaded(req[w]) /\ req[w].input = Zero)
          => /\ req[w].step0 \in BackSteps
                => /\ redis'[req[w].sid].step \in Predecessors(req[w].step0)
                   /\ out'.resp[1] = "CON "
             /\ req[w].step0 = "consent"
                => redis'[req[w].sid].step \in {redis[req[w].sid].step, "returning_language_option"}]_vars

\* C18: a save gives the session key its full lifetime again; a stored
\* record disappears only when a callback deletes it or when a full
\* lifetime has passed since its last save; a callback that finds no record
\* starts at consent.
C18_SlidingExpiry ==
    [][\A s \in SessionIds :
          /\ (\E w \in Workers : req[w].sid = s /\ req[w].pc = "save" /\ Finishes(w))
             => ttl'[s] = TtlTicks
          /\ (redis[s] # NoSession /\ redis'[s] = NoSession)
             => \/ \E w \in Workers :
                     req[w].sid = s /\ req[w].pc \in {"delete", "error_delete"} /\ Finishes(w)
                \/ quiet[s] + 1 >= TtlTicks
          /\ \A w \in Workers :
                (req[w].sid = s /\ req[w].pc = "load_session" /\ req'[w].pc = "handle"
                    /\ redis[s] = NoSession)
                => req'[w].session.step = "consent"]_vars

\* a session saved again in topic_menu by a known citizen is one tick from
\* the end of its lifetime
C18_Witness ==
    \E s \in SessionIds :
        /\ redis[s].step = "topic_menu"
        /\ ttl[s] = 1
        /\ quiet[s] = TtlTicks - 1

\* C19: when the commit of a Citizen or of a Message fails, the callback
\* returns a terminal response, no Citizen, Message or SMS is added, and no
\* session record is left for its session id.
C19_FailedWriteLeavesNoSession ==
    [][\A w \in Workers :
          (Finishes(w) /\ req[w].pc \in {"commit_user", "commit_msg"})
          => /\ out'.resp[1] = "END "
             /\ users' = users /\ messages' = messages /\ sms' = sms
             /\ redis'[req[w].sid] = NoSession]_vars

\* C20: in consent, for a phone with no Citizen, input "1" stores the
\* session in select_language with a continuing response; any other input
\* returns the terminal rejection and writes neither the session store nor
\* the users table.
C20_ConsentGate ==
    [][\A w \in Workers :
          (Finishes(w) /\ req[w].step0 = "consent" /\ req[w].user = NoUser)
          => IF req[w].input = One
             THEN /\ redis'[req[w].sid].step = "select_language"
                  /\ out'.resp[1] = "CON "
                  /\ users' = users
             ELSE /\ out'.resp = <<"END ", "You must consent to continue.">>
                  /\ redis' = redis
                  /\ users' = users]_vars

\* the first callback of a new phone, with no consent, was rejected and
\* nothing is stored
C20_Witness ==
    \E s \in SessionIds :
        /\ out = [sid |-> s, resp |-> <<"END ", "You must consent to continue.">>]
        /\ redis[s] = NoSession
        /\ users = {}

\* C21: when a callback whose response was returned is delivered again
\* and handled, with the store left alone in between (no expiry, no
\* damage), the stored session, the Citizens and the Messages are what they
\* were after the first handling.
C21_DuplicateChangesNothing ==
    [][\A w \in Workers :
          (Finishes(w) /\ req[w].retry = "returned"
              /\ req[w].snap.redis \notin Garbage /\ redis[req[w].sid] = req[w].snap.redis)
          => /\ redis'[req[w].sid] = req[w].snap.redis
             /\ users' = req[w].snap.users
             /\ messages' = req[w].snap.messages]_vars

\* C22: when the process stopped after the Citizen of a district callback
\* was committed and before the session was saved, the same callback,
\* delivered again, stores topic_menu, returns a continuing response and
\* leaves the one Citizen.
C22_RetryAfterCommit ==
    [][\A w \in Workers :
          (Finishes(w) /\ req[w].retry = "crashed" /\ req[w].step0 = "register_district"
              /\ users # {} /\ ~Falsy(req[w].input) /\ req[w].input # Zero
              /\ validate_district(req[w].input))
          => /\ redis'[req[w].sid].step = "topic_menu"
             /\ out'.resp[1] = "CON "
             /\ users' = users
             /\ Cardinality(users') = 1]_vars

\* the district callback delivered again after the stop found the Citizen
\* and is about to save topic_menu
C22_Witness ==
    \E w \in Workers :
        /\ req[w].retry = "crashed"
        /\ req[w].pc = "save"
        /\ req[w].step0 = "register_district"
        /\ req[w].user # NoUser
        /\ req[w].session.step = "topic_menu"
        /\ Cardinality(users) = 1

CodeOf(k) ==
    CASE k = <<"1">> -> "EN" [] k = <<"2">> -> "LG" [] k = <<"3">> -> "RN"
      [] k = <<"4">> -> "LU" [] k = <<"5">> -> "SW" [] k = <<"6">> -> "RT"

\* C24: when a callback with a valid language number in select_language
\* returns (the database accepting the commit), the stored session has the
\* mapped language; without a Citizen it is in register_name; with one it
\* is in topic_menu and the Citizen's preferred language is already the
\* mapped code when the session is saved.
C24_SelectLanguage ==
    [][\A w \in Workers :
          (Finishes(w) /\ req[w].step0 = "select_language" /\ req[w].input \in LanguageKeys
              /\ req[w].env.db)
          => /\ redis'[req[w].sid].language = CodeOf(req[w].input)
             /\ IF req[w].user = NoUser
                THEN redis'[req[w].sid].step = "register_name" /\ users' = users
                ELSE /\ redis'[req[w].sid].step = "topic_menu"
                     /\ \E u \in users :
                           u.id = req[w].user.id /\ u.preferred_language = CodeOf(req[w].input)]_vars

\* a known citizen changed the language to English and stands in topic_menu
C24_Witness ==
    \E s \in SessionIds :
        /\ redis[s].step = "topic_menu"
        /\ redis[s].language = "EN"
        /\ ExistingUser \notin users
        /\ [ExistingUser EXCEPT !.preferred_language = "EN"] \in users

\* C26: whenever the stored step is topic_menu or ask_question, a Citizen
\* exists for the phone of the session, and the "Session error" response
\* is never returned.
C26_CitizenBehindTopicMenu ==
    /\ \A s \in SessionIds :
          redis[s].step \in {"topic_menu", "ask_question"}
          => \E u \in users : u.phone_number = last.phone
    /\ out.resp # <<"END ", "Session error. Please start over.">>

\* a session of a citizen registered in this conversation stands in
\* ask_question
C26_Witness ==
    \E s \in SessionIds :
        /\ redis[s].step = "ask_question"
        /\ redis[s].data.name # None
        /\ \E u \in users : u.phone_number = last.phone /\ u.first_name = redis[s].data.name

\* the response carries the prompt of the step
ShowsPromptOf(step, resp) ==
    CASE step = "consent" -> Contains(resp, <<"WELCOME_MSG">>)
      [] step = "select_language" -> Contains(resp, SelectLanguageMenu)
      [] step = "topic_menu" -> Contains(resp, <<"format_topics">>)
      [] step = "ask_question" -> Contains(resp, <<"PROMPTS", "question">>)
      [] step \in {"register_name", "register_district", "returning_language_option"}
            -> Contains(resp, <<"PROMPTS", step>>)
      [] OTHER -> FALSE

\* C27: whenever a callback returns a continuing response, the response
\* shows the prompt of the step it stored.
C27_PromptOfStoredStep ==
    [][\A w \in Workers :
          (Finishes(w) /\ out'.resp[1] = "CON ")
          => ShowsPromptOf(redis'[req[w].sid].step, out'.resp)]_vars

\* C28: a callback with input "0" outside consent and
\* returning_language_option changes nothing but the step of the stored
\* session: no Citizen, no Message, no SMS, data and language kept, the
\* record still stored, and no question built from "0".
C28_BackChangesOnlyStep ==
    [][\A w \in Workers :
          (Loaded(req[w]) /\ req[w].input = Zero /\ req[w].step0 \in BackSteps)
          => /\ users' = users /\ messages' = messages
             /\ sms' = sms /\ failed_sms' = failed_sms
             /\ req[w].msg = NoMsg
             /\ Finishes(w)
                => /\ redis'[req[w].sid] \notin Garbage \cup {NoSession}
                   /\ redis[req[w].sid] # NoSession
                      => redis'[req[w].sid] = [redis[req[w].sid] EXCEPT !.step = redis'[req[w].sid].step]]_vars

\* after "0" in ask_question the session is back in topic_menu with the
\* chosen topic kept, and nothing was committed
C28_Witness ==
    \E s \in SessionIds :
        /\ out.sid = s /\ out.resp # << >> /\ out.resp[1] = "CON "
        /\ redis[s].step = "topic_menu"
        /\ redis[s].data.topic # ""
        /\ messages = << >>

\* the question of a text is empty after sanitizing
EmptyAfterSanitizing(text) == RemoveAngle(Strip(LastSegment(Strip(text)))) = << >>

\* C25: the content of the Message built from a question has at most 160
\* characters and neither "<" nor ">"; a question that is empty after
\* sanitizing re-prompts in ask_question and builds no Message.
C25_QuestionContent ==
    call.fn = "ask_question"
    => /\ call.res.msg # NoMsg
          => /\ Len(call.res.msg.content) <= MaxQuestionLen
             /\ \A i \in 1..Len(call.res.msg.content) : call.res.msg.content[i] \notin {"<", ">"}
       /\ EmptyAfterSanitizing(call.arg)
          => /\ call.res.next = "save"
             /\ call.res.session.step = "ask_question"
             /\ call.res.resp = <<"CON ", "PROMPTS", "question", "EN">>
             /\ call.res.msg = NoMsg /\ ~call.res.submit

\* a question longer than the limit, with an angle bracket, was cut
C25_Witness ==
    /\ call.fn = "ask_question"
    /\ Len(call.arg) > MaxQuestionLen
    /\ \E i \in 1..Len(call.arg) : call.arg[i] \in {"<", ">"}
    /\ call.res.msg # NoMsg
    /\ Len(call.res.msg.content) = MaxQuestionLen

\* C29: a district accepted by validate_district, stored title-cased for
\* the new Citizen, resolves against the same representatives to one of
\* them, never to the fallback identity.
C29_AcceptedDistrictResolves ==
    (call.fn = "register_district" /\ call.res.accepted)
    => /\ call.res.to.recipient_id # FALLBACK_MP_ID
       /\ \E i \in 1..Len(call.arg[1]) :
             /\ call.arg[1][i].user_id = call.res.to.recipient_id
             /\ call.arg[1][i].phone_number = call.res.to.recipient_phone

\* "kampala district" is accepted and resolves to a representative
C29_Witness ==
    /\ call.fn = "register_district"
    /\ call.res.accepted
    /\ call.arg[2] = Lower(KampalaDistrict)
    /\ call.res.to.recipient_id \in {8, 9}

\* the representatives whose normalized district is the citizen's
ExactMatches(mps, district_id) ==
    {i \in 1..Len(mps) :
        NormDistrict(OrEmpty(mps[i].district_id)) = NormDistrict(OrEmpty(district_id))}

\* the representatives whose normalized district contains the citizen's
\* or is contained in it
ContainmentMatches(mps, district_id) ==
    {i \in 1..Len(mps) :
        \/ Contains(NormDistrict(OrEmpty(mps[i].district_id)), NormDistrict(OrEmpty(district_id)))
        \/ Contains(NormDistrict(OrEmpty(district_id)), NormDistrict(OrEmpty(mps[i].district_id)))}

\* C30 as stated: when some representative's normalized district equals
\* the citizen's, the resolved recipient is a representative with that
\* normalized district, whatever the list and its order.
C30_ExactMatchWins ==
    (call.fn = "resolve_mp" /\ ExactMatches(call.arg[1], call.arg[2]) # {})
    => \E i \in ExactMatches(call.arg[1], call.arg[2]) :
          call.arg[1][i].user_id = call.res.recipient_id

\* C30 amended: when some representative's normalized district equals the
\* citizen's, the resolved recipient is the first representative of the
\* list whose normalized district contains the citizen's or is contained
\* in it; it has the citizen's district when no earlier representative
\* matches by containment.
C30_ExactMatchFirstContaining ==
    (call.fn = "resolve_mp" /\ ExactMatches(call.arg[1], call.arg[2]) # {})
    => LET near == ContainmentMatches(call.arg[1], call.arg[2])
           first == CHOOSE i \in near : \A j \in near : i <= j
       IN  /\ call.res.recipient_id = call.arg[1][first].user_id
           /\ call.res.recipient_id # FALLBACK_MP_ID
           /\ first \in ExactMatches(call.arg[1], call.arg[2])
              => \E i \in ExactMatches(call.arg[1], call.arg[2]) :
                    call.arg[1][i].user_id = call.res.recipient_id

\* a representative of Kampala Central listed before the one of Kampala
\* receives the question of a citizen of Kampala
C30_Witness ==
    /\ call.fn = "resolve_mp"
    /\ call.arg[2] = Kampala
    /\ Len(call.arg[1]) = 2
    /\ call.arg[1][1].district_id = KampalaCentral
    /\ 2 \in ExactMatches(call.arg[1], call.arg[2])
    /\ call.res.recipient_id = call.arg[1][1].user_id

====
